---- MODULE Spec2Model ----
(***************************************************************************)
(* Tableau simplex solver (src/simplex.py, driven by src/main.py).         *)
(*                                                                         *)
(* Simplex.__init__ parses a grid of strings into the tableau self.mat,    *)
(* Simplex.solve pivots it in place, Simplex.solution reads it.            *)
(*                                                                         *)
(* Numbers: the program computes with Python floats.  The model computes   *)
(* with exact rationals <<n, d>> (d > 0, lowest terms), i.e. the real      *)
(* numbers the floats stand for; rounding is not modelled.  A string is a  *)
(* sequence of one-character strings.  Row and column indices held in      *)
(* variables are the program's 0-based indices; the sequences of the       *)
(* model are 1-based, hence the "+ 1" at every access.                     *)
(***************************************************************************)
EXTENDS Integers, Sequences, FiniteSets, TLC

VARIABLES eqns, mat, self_eqns, self_vars, pc, argma, argmi, div, divisors,
          entry_mat, pivots, calls, soln

vars == <<eqns, mat, self_eqns, self_vars, pc, argma, argmi, div, divisors,
          entry_mat, pivots, calls, soln>>

----------------------------------------------------------------------------
(* Bounds of the model.                                                    *)

\* objective coefficients of the generated slack tableaux range over 0..MaxObj
MaxObj == 1
\* constraint coefficients of the generated tableaux range over -1..MaxEntry
MaxEntry == 1
\* right-hand sides of the generated tableaux range over -1..MaxRhs
MaxRhs == 2
\* solve() is called at most MaxCalls times on one Simplex object
MaxCalls == 2
\* rows and cells per row of the raw grids handed to the constructor
MaxRawRows == 2
MaxRawCols == 2

----------------------------------------------------------------------------
(* Exact rational arithmetic standing for Python's float operators.        *)

Abs(n) == IF n < 0 THEN -n ELSE n

RECURSIVE GCD(_, _)
GCD(a, b) == IF b = 0 THEN a ELSE GCD(b, a % b)

Norm(n, d) ==
    LET g == GCD(Abs(n), Abs(d))
        s == IF d < 0 THEN -1 ELSE 1
    IN  <<(s * n) \div g, (s * d) \div g>>

R(n) == <<n, 1>>
Zero == R(0)

RAdd(a, b) == Norm(a[1] * b[2] + b[1] * a[2], a[2] * b[2])
RSub(a, b) == Norm(a[1] * b[2] - b[1] * a[2], a[2] * b[2])
RMul(a, b) == Norm(a[1] * b[1], a[2] * b[2])
\* a / b; the callers establish b # 0 first (Python raises ZeroDivisionError)
RDiv(a, b) == Norm(a[1] * b[2], a[2] * b[1])
RNeg(a) == <<-a[1], a[2]>>
RGt(a, b) == a[1] * b[2] > b[1] * a[2]
RPos(a) == a[1] > 0
RLe0(a) == a[1] <= 0
\* truthiness of a float: non-zero
Truthy(a) == a[1] # 0

----------------------------------------------------------------------------
(* float(entry) on strings over the alphabet digits, "-", "+", ".", and    *)
(* letters that occur in no float literal.                                 *)

DigitChars == <<"0", "1", "2", "3", "4", "5", "6", "7", "8", "9">>
IsDigit(ch) == \E i \in 1..10 : DigitChars[i] = ch
DigitVal(ch) == (CHOOSE i \in 1..10 : DigitChars[i] = ch) - 1

StripSign(s) == IF Len(s) > 0 /\ s[1] \in {"-", "+"} THEN Tail(s) ELSE s

\* does float(s) return (TRUE) or raise ValueError (FALSE)
IsFloatLiteral(s) ==
    LET b == StripSign(s)
    IN  /\ \A i \in 1..Len(b) : IsDigit(b[i]) \/ b[i] = "."
        /\ Cardinality({i \in 1..Len(b) : b[i] = "."}) <= 1
        /\ \E i \in 1..Len(b) : IsDigit(b[i])

RECURSIVE DigitsValue(_)
DigitsValue(ds) ==
    IF Len(ds) = 0 THEN 0
    ELSE 10 * DigitsValue(SubSeq(ds, 1, Len(ds) - 1)) + DigitVal(ds[Len(ds)])

RECURSIVE Pow10(_)
Pow10(k) == IF k = 0 THEN 1 ELSE 10 * Pow10(k - 1)

\* the value float(s) returns, for s with IsFloatLiteral(s)
ParseFloat(s) ==
    LET b == StripSign(s)
        dots == {i \in 1..Len(b) : b[i] = "."}
        fracLen == IF dots = {} THEN 0 ELSE Len(b) - (CHOOSE i \in dots : TRUE)
        sign == IF Len(s) > 0 /\ s[1] = "-" THEN -1 ELSE 1
    IN  Norm(sign * DigitsValue(SelectSeq(b, IsDigit)), Pow10(fracLen))

\* the list comprehension of __init__
ParseGrid(g) == [r \in 1..Len(g) |-> [c \in 1..Len(g[r]) |-> ParseFloat(g[r][c])]]
AllParse(g) == \A r \in 1..Len(g) : \A c \in 1..Len(g[r]) : IsFloatLiteral(g[r][c])

----------------------------------------------------------------------------
(* str(v) of an int v, as the callers of the constructor produce cells.    *)

RECURSIVE NatStr(_)
NatStr(n) == IF n < 10 THEN <<DigitChars[n + 1]>>
             ELSE Append(NatStr(n \div 10), DigitChars[(n % 10) + 1])

IntStr(n) == IF n < 0 THEN <<"-">> \o NatStr(-n) ELSE NatStr(n)

StrGrid(rows) == [r \in 1..Len(rows) |-> [c \in 1..Len(rows[r]) |-> IntStr(rows[r][c])]]

----------------------------------------------------------------------------
(* The grids handed to the constructor.                                    *)

ObjVals == 0..MaxObj
EntryVals == -1..MaxEntry
RhsVals == -1..MaxRhs

\* objective row c | 0 .. 0 | 0 over constraint rows A | I | b
SlackTableau(n, m, c, A, b) ==
    [r \in 1..(m + 1) |->
        [j \in 1..(n + m + 1) |->
            IF r = 1 THEN (IF j <= n THEN c[j] ELSE 0)
            ELSE IF j <= n THEN A[r - 1][j]
            ELSE IF j <= n + m THEN (IF j - n = r - 1 THEN 1 ELSE 0)
            ELSE b[r - 1]]]

SlackShapes == {<<1, 0>>, <<2, 0>>, <<1, 1>>, <<2, 1>>, <<1, 2>>, <<2, 2>>}

\* tableaux that are not in slack form: one constraint row, every entry free
FreeTableaux == [1..2 -> [1..3 -> EntryVals]]

\* the tableaux of the test suite
TestTableaux ==
    { <<<<5, 6, 0, 0, 0>>, <<3, 4, 1, 0, 108>>, <<5, 4, 0, 1, 140>>>>,
      <<<<-1, -2, 0, 0, -10>>, <<1, 1, 1, 0, 5>>, <<2, 1, 0, 1, 8>>>>,
      <<<<3, 2, 0, 0>>, <<1, 1, 1, 10>>>>,
      <<<<2, 1, 0, 0, 0>>, <<1, 0, 1, 0, 4>>, <<0, 1, 0, 1, 6>>>>,
      <<<<1, 1, 0, 0, 0, 0>>, <<1, 0, 1, 0, 0, 4>>, <<-1, 1, 0, 1, 0, 3>>,
        <<0, 1, 0, 0, 1, 6>>>>,
      <<<<1, 1, 0, 0>>, <<0, 1, 1, 5>>>>,
      <<<<1, 0, 0>>, <<-1, 1, 5>>>>,
      <<<<5, 4, 3, 0, 0, 0, 0>>, <<6, 4, 2, 1, 0, 0, 240>>,
        <<3, 2, 5, 0, 1, 0, 270>>, <<5, 6, 5, 0, 0, 1, 420>>>>,
      <<<<1, 0, 0, 0, 0>>, <<1, 0, 1, 0, 0>>, <<1, 1, 0, 1, 1>>>>,
      <<<<1, 1, 0, 0, 0>>, <<0, 1, 1, 0, 3>>, <<1, 1, 0, 1, 5>>>> }

\* rectangular grids of int literals: what a well-behaved caller passes
IsNumericGrid(g) ==
    \/ \E s \in SlackShapes :
          \E c \in [1..s[1] -> ObjVals], A \in [1..s[2] -> [1..s[1] -> EntryVals]],
             b \in [1..s[2] -> RhsVals] :
                g = StrGrid(SlackTableau(s[1], s[2], c, A, b))
    \/ \E t \in FreeTableaux \cup TestTableaux : g = StrGrid(t)

----------------------------------------------------------------------------
(* Simplex.__init__                                                        *)

InitCommon ==
    /\ mat = <<>>
    /\ self_eqns = 0
    /\ self_vars = 0
    /\ pc = "new"
    /\ argma = 0
    /\ argmi = 0
    /\ div = Zero
    /\ divisors = {}
    /\ entry_mat = <<>>
    /\ pivots = 0
    /\ calls = 0
    /\ soln = <<>>

Init == IsNumericGrid(eqns) /\ InitCommon

\* lines 7-14: a cell float() rejects ends the process (sys.exit(1)); an empty
\* grid raises IndexError at self.mat[0]
Construct ==
    /\ pc = "new"
    /\ IF ~AllParse(eqns)
       THEN /\ pc' = "exit"
            /\ UNCHANGED <<mat, self_eqns, self_vars>>
       ELSE /\ mat' = ParseGrid(eqns)
            /\ self_eqns' = Len(eqns)
            /\ IF Len(eqns) = 0
               THEN pc' = "IndexError" /\ UNCHANGED self_vars
               ELSE pc' = "ready" /\ self_vars' = Len(eqns[1])
    /\ UNCHANGED <<eqns, argma, argmi, div, divisors, entry_mat, pivots, calls, soln>>

----------------------------------------------------------------------------
(* Simplex.solve                                                           *)

\* mutant of CanContinue: the loop test written with >= instead of >
CanContinueGe(m) == \E j \in 1..(Len(m[1]) - 1) : m[1][j][1] >= 0

\* line 23: any(val > 0 for val in self.mat[0][:-1])
CanContinue(m) == \E j \in 1..(Len(m[1]) - 1) : RPos(m[1][j])

\* lines 24-28: the scan for the entering column, from column xi on
RECURSIVE ScanMax(_, _, _, _)
ScanMax(row, xi, ma, arg) ==
    IF xi > Len(row) - 2 THEN arg
    ELSE IF RGt(row[xi + 1], ma) THEN ScanMax(row, xi + 1, row[xi + 1], xi)
    ELSE ScanMax(row, xi + 1, ma, arg)

ArgMax(m) == ScanMax(m[1], 1, m[1][1], 0)

\* mutant of UnboundedCheck: the check written with < instead of <=
UnboundedCheckStrict(m, c) == \A r \in 2..Len(m) : m[r][c + 1][1] < 0

\* line 30: all(row[argma] <= 0 for row in self.mat[1:])
UnboundedCheck(m, c) == \A r \in 2..Len(m) : RLe0(m[r][c + 1])

\* mutant of EntryGuard: the ratio computed without looking at the entry
EntryGuardNone(e) == TRUE

\* line 36, first conjunct: the entry is truthy, so the divisions that follow
\* in the condition and in line 39 have a non-zero divisor
EntryGuard(e) == Truthy(e)

\* the divisors of the divisions the ratio loop performs
RatioDivisors(m, c) ==
    {m[yi + 1][c + 1] : yi \in {y \in 1..(self_eqns - 1) : EntryGuard(m[y + 1][c + 1])}}

\* lines 36-38: does row yi replace the current minimum mi
RatioAccepts(m, c, yi, mi) ==
    /\ EntryGuard(m[yi + 1][c + 1])
    /\ RPos(RDiv(m[yi + 1][Len(m[yi + 1])], m[yi + 1][c + 1]))
    /\ RGt(mi, RDiv(m[yi + 1][Len(m[yi + 1])], m[yi + 1][c + 1]))

\* math.inf
Inf == <<1, 0>>

\* lines 34-40: the loop over yi, returning argmi
RECURSIVE RatioLoop(_, _, _, _, _)
RatioLoop(m, c, yi, mi, arg) ==
    IF yi > self_eqns - 1 THEN arg
    ELSE IF RatioAccepts(m, c, yi, mi)
         THEN RatioLoop(m, c, yi + 1,
                        RDiv(m[yi + 1][Len(m[yi + 1])], m[yi + 1][c + 1]), yi)
         ELSE RatioLoop(m, c, yi + 1, mi, arg)

MinRatioRow(m, c) == RatioLoop(m, c, 1, Inf, 0)

\* line 44: the pivot row divided by div
ScaleRow(m, r, d) ==
    [m EXCEPT ![r + 1] = [j \in 1..self_vars |-> RDiv(m[r + 1][j], d)]]

\* lines 45-49: every other row minus mult times the pivot row
Eliminate(m, r, c) ==
    [i \in 1..self_eqns |->
        IF i = r + 1 THEN m[i]
        ELSE LET mult == RDiv(m[i][c + 1], m[r + 1][c + 1])
             IN  [j \in 1..self_vars |-> RSub(m[i][j], RMul(mult, m[r + 1][j]))]]

\* lines 43-49
Pivot(m, r, c) == Eliminate(ScaleRow(m, r, m[r + 1][c + 1]), r, c)

CallSolve ==
    /\ pc \in {"ready", "optimal", "unbounded"}
    /\ calls < MaxCalls
    /\ pc' = "loop"
    /\ entry_mat' = mat
    /\ pivots' = 0
    /\ calls' = calls + 1
    /\ UNCHANGED <<eqns, mat, self_eqns, self_vars, argma, argmi, div, divisors, soln>>

\* line 23 false: the loop ends, solve() returns
StopOptimal ==
    /\ pc = "loop"
    /\ ~CanContinue(mat)
    /\ pc' = "optimal"
    /\ UNCHANGED <<eqns, mat, self_eqns, self_vars, argma, argmi, div, divisors,
                   entry_mat, pivots, calls, soln>>

\* lines 30-32: print "Unbounded LP" and break
StopUnbounded ==
    /\ pc = "loop"
    /\ CanContinue(mat)
    /\ UnboundedCheck(mat, ArgMax(mat))
    /\ pc' = "unbounded"
    /\ argma' = ArgMax(mat)
    /\ UNCHANGED <<eqns, mat, self_eqns, self_vars, argmi, div, divisors,
                   entry_mat, pivots, calls, soln>>

\* lines 34-49: one iteration that pivots.  A division by zero raises
\* ZeroDivisionError before anything is written to the tableau.
PivotStep ==
    /\ pc = "loop"
    /\ CanContinue(mat)
    /\ ~UnboundedCheck(mat, ArgMax(mat))
    /\ LET c == ArgMax(mat)
           ds == RatioDivisors(mat, c)
       IN  /\ argma' = c
           /\ IF Zero \in ds
              THEN /\ pc' = "ZeroDivisionError"
                   /\ divisors' = ds
                   /\ UNCHANGED <<mat, argmi, div, pivots>>
              ELSE LET r == MinRatioRow(mat, c)
                       d == mat[r + 1][c + 1]
                   IN  /\ argmi' = r
                       /\ div' = d
                       /\ IF d = Zero
                          THEN /\ pc' = "ZeroDivisionError"
                               /\ divisors' = ds \cup {d}
                               /\ UNCHANGED <<mat, pivots>>
                          ELSE /\ pc' = "loop"
                               /\ divisors' = ds \cup {d, ScaleRow(mat, r, d)[r + 1][c + 1]}
                               /\ mat' = Pivot(mat, r, c)
                               /\ pivots' = pivots + 1
    /\ UNCHANGED <<eqns, self_eqns, self_vars, entry_mat, calls, soln>>

Next == Construct \/ CallSolve \/ StopOptimal \/ StopUnbounded \/ PivotStep

Spec == Init /\ [][Next]_vars

----------------------------------------------------------------------------
(* Simplex.solution                                                        *)

\* mutant of IsBasicColumn: the zeros counted over the constraint rows only
IsBasicColumnConstraintRows(m, xi) ==
    Cardinality({r \in 2..Len(m) : m[r][xi + 1] = Zero}) = self_eqns - 2

\* line 54: sum(row[xi] == 0.0 for row in self.mat) == self.eqns - 1
IsBasicColumn(m, xi) ==
    Cardinality({r \in 1..Len(m) : m[r][xi + 1] = Zero}) = self_eqns - 1

\* lines 56-58: one value appended per row with a truthy entry in column xi
RECURSIVE BasicValues(_, _, _)
BasicValues(m, xi, r) ==
    IF r > Len(m) THEN <<>>
    ELSE (IF Truthy(m[r][xi + 1])
          THEN <<RDiv(m[r][Len(m[r])], m[r][xi + 1])>>
          ELSE <<>>) \o BasicValues(m, xi, r + 1)

\* lines 53-61: the list soln, from column xi on
RECURSIVE SolnFrom(_, _)
SolnFrom(m, xi) ==
    IF xi > self_vars - 2 THEN <<>>
    ELSE (IF IsBasicColumn(m, xi) THEN BasicValues(m, xi, 1) ELSE <<Zero>>)
         \o SolnFrom(m, xi + 1)

\* lines 51-63: the values and the objective value the returned string shows
Solution(m) == [values |-> SolnFrom(m, 0), objective |-> RNeg(m[1][Len(m[1])])]

\* solution() is read-only; the model follows an object up to its first
\* solution() call, made between the calls of solve() or inside its loop
CallSolution ==
    /\ pc \in {"ready", "loop", "optimal", "unbounded"}
    /\ calls <= 1
    /\ soln' = Solution(mat)
    /\ pc' = "reported"
    /\ UNCHANGED <<eqns, mat, self_eqns, self_vars, argma, argmi, div, divisors,
                   entry_mat, pivots, calls>>

NextSolution == Next \/ CallSolution

SpecSolution == Init /\ [][NextSolution]_vars

----------------------------------------------------------------------------
(* The constructor on arbitrary grids of strings.                          *)

RawCells == { <<>>, <<"1">>, <<"-", "2">>, <<"1", ".", "5">>, <<".">>, <<"x">>,
              <<"-">>, <<"1", "-">> }

RawRows == UNION {[1..k -> RawCells] : k \in 0..MaxRawCols}

RawGrids == UNION {[1..k -> RawRows] : k \in 0..MaxRawRows}

InitParse == eqns \in RawGrids /\ InitCommon

SpecParse == InitParse /\ [][Construct]_vars

----------------------------------------------------------------------------
(* Vocabulary of the properties, stated without the solver's operators.    *)

\* the tableau the constructor was given, as numbers
Mat0 == ParseGrid(eqns)

LastCol(m) == Len(m[1])
ConstraintRows(m) == 1..(Len(m) - 1)
VarCols(m) == 0..(Len(m[1]) - 2)

\* every coefficient of row 0, the right-hand side excluded, is <= 0
RowOptimal(m) == \A c \in VarCols(m) : ~RPos(m[1][c + 1])

\* the leftmost column holding the greatest coefficient of row 0
EnteringColumn(m) ==
    CHOOSE c \in VarCols(m) :
        /\ \A k \in VarCols(m) : ~RGt(m[1][k + 1], m[1][c + 1])
        /\ \A k \in VarCols(m) : k < c => RGt(m[1][c + 1], m[1][k + 1])

ColumnNonPositive(m, c) == \A r \in ConstraintRows(m) : ~RPos(m[r + 1][c + 1])

\* the last m columns before the right-hand side are the identity in the
\* constraint rows and zero in the objective row (the slack variables are
\* basic and priced out), and every constraint right-hand side is >= 0
IsSlackForm(m) ==
    LET k == Len(m) - 1
        nv == Len(m[1]) - 1
    IN  /\ nv >= k
        /\ \A i \in 1..k : \A j \in 1..k :
              m[i + 1][nv - k + j] = (IF i = j THEN R(1) ELSE Zero)
        /\ \A j \in 1..k : m[1][nv - k + j] = Zero
        /\ \A i \in 1..k : m[i + 1][nv + 1][1] >= 0

RhsFeasible(m) == \A r \in ConstraintRows(m) : m[r + 1][LastCol(m)][1] >= 0

ObjectiveValue(m) == RNeg(m[1][LastCol(m)])

SetMin(S) == CHOOSE x \in S : \A y \in S : x <= y

\* Gauss-Jordan reduction of tableau m on row r, column c (1-based)
RowReduce(m, r, c) ==
    [i \in 1..Len(m) |->
        [j \in 1..Len(m[i]) |->
            IF i = r THEN RDiv(m[r][j], m[r][c])
            ELSE RSub(m[i][j], RMul(RDiv(m[i][c], m[r][c]), m[r][j]))]]

\* m brought to the basis B (a set of 1-based columns); <<>> if B is singular
RECURSIVE ReduceToBasis(_, _, _)
ReduceToBasis(m, B, rowsLeft) ==
    IF B = {} THEN m
    ELSE LET c == SetMin(B)
             cand == {r \in rowsLeft : m[r][c] # Zero}
         IN  IF cand = {} THEN <<>>
             ELSE ReduceToBasis(RowReduce(m, SetMin(cand), c), B \ {c},
                                rowsLeft \ {SetMin(cand)})

BasisTableaux(m) ==
    {ReduceToBasis(m, B, 2..Len(m)) :
        B \in {X \in SUBSET (1..(Len(m[1]) - 1)) : Cardinality(X) = Len(m) - 1}}
    \ {<<>>}

\* the linear program max{z : rows of m, all variables >= 0} is unbounded:
\* some basis has an improving direction that no constraint limits
LPUnbounded(m) ==
    \E t \in BasisTableaux(m) : \E c \in VarCols(t) :
        RPos(t[1][c + 1]) /\ ColumnNonPositive(t, c)

\* its maximum: the best objective value among the basic feasible solutions
LPMax(m) ==
    LET vals == {ObjectiveValue(t) : t \in {u \in BasisTableaux(m) : RhsFeasible(u)}}
    IN  CHOOSE v \in vals : \A w \in vals : ~RGt(w, v)

\* the rows the minimum-ratio test may choose from, and its choice
Eligible(m, c) == {r \in ConstraintRows(m) : RPos(m[r + 1][c + 1])}
Ratio(m, c, r) == RDiv(m[r + 1][LastCol(m)], m[r + 1][c + 1])
LeavingRow(m, c) ==
    CHOOSE r \in Eligible(m, c) :
        /\ \A q \in Eligible(m, c) : ~RGt(Ratio(m, c, r), Ratio(m, c, q))
        /\ \A q \in Eligible(m, c) : q < r => RGt(Ratio(m, c, q), Ratio(m, c, r))

Returned == pc \in {"optimal", "unbounded"}

----------------------------------------------------------------------------
(* The claims.                                                             *)

\* C1: from a slack-form tableau (identity slack columns, constraint RHS >= 0)
\* whose linear program has a finite maximum, solve() returns with every
\* row-0 coefficient <= 0 and -mat[0][-1] equal to that maximum.
C1_OptimumReached ==
    (Returned /\ calls = 1 /\ IsSlackForm(Mat0) /\ ~LPUnbounded(Mat0))
        => (RowOptimal(mat) /\ ObjectiveValue(mat) = LPMax(Mat0))

\* C2: whenever a constraint row r >= 1 is pivoted on in column c, the entry
\* tableau[r][c] was > 0 immediately before the pivot (div holds that entry).
C2_PivotEntryPositive == (pivots > 0 /\ argmi >= 1) => RPos(div)

\* C3: the pivot row is the lowest-indexed row attaining the minimum of
\* RHS/entry over the constraint rows with entry > 0, a ratio of 0 included.
C3_MinRatioRow ==
    [][(pc = "loop" /\ pivots' = pivots + 1) => argmi' = LeavingRow(mat, argma')]_vars

\* C4: when the entering column (leftmost maximum positive coefficient of row
\* 0) has every constraint entry <= 0, solve() stops Unbounded in that
\* iteration with no pivot: the tableau is unchanged and row 0 still holds a
\* strictly positive coefficient.
C4_UnboundedStops ==
    [][(pc = "loop" /\ ~RowOptimal(mat) /\ ColumnNonPositive(mat, EnteringColumn(mat)))
          => (pc' = "unbounded" /\ mat' = mat /\ pivots' = pivots /\ ~RowOptimal(mat'))]_vars

\* C4 witness: solve() has stopped Unbounded on a column mixing negative and
\* zero entries
C4_Witness ==
    /\ pc = "unbounded"
    /\ ColumnNonPositive(mat, argma)
    /\ \E r \in ConstraintRows(mat) : mat[r + 1][argma + 1][1] < 0
    /\ \E r \in ConstraintRows(mat) : mat[r + 1][argma + 1] = Zero

\* C5: solve() never pivots on the objective row (row 0): when no row
\* qualifies in the ratio test it fails instead of pivoting.
C5_NoObjectiveRowPivot == pivots > 0 => argmi >= 1

\* value the claim C6 gives column xi: constraint rows only
ConstraintRowValue(m, xi) ==
    LET nz == {r \in ConstraintRows(m) : m[r + 1][xi + 1] # Zero}
    IN  IF Cardinality(nz) = 1
        THEN LET r == CHOOSE q \in nz : TRUE
             IN  RDiv(m[r + 1][LastCol(m)], m[r + 1][xi + 1])
        ELSE Zero

AllRowsValue(m, xi) ==
    LET nz == {r \in 0..(Len(m) - 1) : m[r + 1][xi + 1] # Zero}
    IN  IF Cardinality(nz) = 1
        THEN LET r == CHOOSE q \in nz : TRUE
             IN  RDiv(m[r + 1][LastCol(m)], m[r + 1][xi + 1])
        ELSE Zero

IsRagged(g) == \E r \in 1..Len(g) : Len(g[r]) # Len(g[1])

\* C7: the constructor fails with the parse error whenever a cell is not a
\* number or the rows differ in length; otherwise the stored row and column
\* counts are those of the grid.
C7_ParseOrFail ==
    (pc # "new" /\ Len(eqns) > 0) =>
        IF ~AllParse(eqns) \/ IsRagged(eqns)
        THEN pc = "exit"
        ELSE pc = "ready" /\ self_eqns = Len(eqns) /\ self_vars = Len(eqns[1])

\* C8: a call of solve() on a tableau whose row-0 coefficients are all <= 0
\* performs no pivot and changes no entry (entry_mat is the tableau at the
\* call); so a second call after an Optimal return changes nothing.
C8_OptimalNoOp ==
    (pc \in {"loop", "optimal", "unbounded"} /\ RowOptimal(entry_mat))
        => (pivots = 0 /\ mat = entry_mat /\ pc # "unbounded")

\* C8 witness: a second solve() has returned on a tableau the first call
\* pivoted to optimality
C8_Witness ==
    /\ calls = 2
    /\ pc = "optimal"
    /\ mat # Mat0
    /\ ObjectiveValue(mat) # ObjectiveValue(Mat0)

\* C9: no step of solve() divides by zero (divisors holds the divisors of the
\* last iteration).
C9_NoZeroDivision == pc # "ZeroDivisionError" /\ Zero \notin divisors

\* C9 witness: the first pivot was made in a column whose entry in the first
\* constraint row was zero
C9_Witness ==
    /\ pivots = 1
    /\ calls = 1
    /\ Len(Mat0) > 2
    /\ Mat0[2][argma + 1] = Zero
    /\ mat # Mat0

\* C10: from a slack-form tableau with every constraint RHS >= 0, every
\* constraint RHS is still >= 0 after every pivot.
C10_RhsStaysFeasible ==
    (calls = 1 /\ pivots > 0 /\ IsSlackForm(Mat0)) => RhsFeasible(mat)

====
